---- MODULE Spec2Model ----
(***************************************************************************)
(* A model of the brainfrick interpreter: the compiler pass (parse.rs),    *)
(* the tape (mem.rs), the string executor (execute.rs), the stream         *)
(* executor (run.rs) and the text of an error (error.rs).                  *)
(*                                                                         *)
(* Rust indexes are zero-based; sequences here are one-based, so the       *)
(* element a Rust index i names is At(seq, i) == seq[i + 1].  Every index  *)
(* stored in the state (jump targets, index, step_index, pointer) keeps    *)
(* its Rust value.                                                         *)
(***************************************************************************)
EXTENDS Integers, Sequences, FiniteSets, TLC

VARIABLES
    code,        \* the source text handed to parse, a sequence of characters
    bf,          \* the value parse returned: a Brainfuck or an Error
    pc,          \* where the caller is: "init", "parsed", "ready", "running", "done"
    input,       \* the unread bytes of the input
    output,      \* the bytes written so far
    mem,         \* execute.rs: the Memory of the execution
    index,       \* execute.rs: the instruction index
    step_count,  \* the step counter of the execution
    options,     \* run.rs: the RunOptions of the execution
    tape,        \* run.rs: the tape
    pointer,     \* run.rs: the pointer into the tape
    step_index,  \* run.rs: the instruction index
    executed,    \* history: how many instructions the execution has dispatched
    moved,       \* history: the sum of the amounts of the Moves it has made
    given,       \* history: the input the execution was called with
    returned,    \* history: the calls that have returned, each with its result
    other,       \* the local variables of a second execution of the same bf
    result,      \* what the execution returned
    shown        \* what Display wrote for the error the caller holds

vars == <<code, bf, pc, input, output, mem, index, step_count, options, tape,
          pointer, step_index, executed, moved, given, returned, other, result,
          shown>>

(***************************************************************************)
(* Bounds of the model.                                                    *)
(***************************************************************************)
ParseMaxLen == 4

(***************************************************************************)
(* Source text.  A character is one of the nine significant ASCII          *)
(* characters, a line feed, a carriage return, an inert ASCII character,   *)
(* or an inert character whose UTF-8 encoding is two bytes long.           *)
(***************************************************************************)
LF == "\n"
CR == "\r"
Inert == "x"
Wide == "U+00E9"

SigChars == {"+", "-", ">", "<", ".", ",", "?", "[", "]"}
Chars == SigChars \cup {LF, Inert, Wide}

\* The UTF-8 encoding of one character, as String stores it.
Utf8(c) == IF c = Wide THEN <<"0xC3", "0xA9">> ELSE <<c>>

RECURSIVE Bytes(_)
\* str::bytes: the UTF-8 bytes of a piece of text.
Bytes(s) == IF s = <<>> THEN <<>> ELSE Utf8(Head(s)) \o Bytes(Tail(s))

\* The sequences over S of length at most n.
SeqsUpTo(S, n) == UNION {[1..k -> S] : k \in 0..n}

At(seq, i) == seq[i + 1]

(***************************************************************************)
(* step.rs                                                                 *)
(***************************************************************************)
Add(n) == [op |-> "Add", n |-> n]
Move(n) == [op |-> "Move", n |-> n]
Loop(kind, jump) == [op |-> "Loop", kind |-> kind, jump |-> jump]
Output == [op |-> "Output"]
Input == [op |-> "Input"]
Debug == [op |-> "Debug"]

(***************************************************************************)
(* error.rs                                                                *)
(***************************************************************************)
None == [none |-> TRUE]
Some(v) == [some |-> v]

\* Index::new with the column counted from one.
IndexNewFromOne(line, col) == [line |-> line, col |-> col + 1]

IndexNew(line, col) == [line |-> line, col |-> col]

Error(kind, idx, brainfuck, out) ==
    [kind |-> kind, index |-> idx, brainfuck |-> brainfuck, output |-> out]

(***************************************************************************)
(* parse.rs                                                                *)
(***************************************************************************)
\* A line without the carriage return that stood before its line feed.
StripCR(line) ==
    IF line # <<>> /\ line[Len(line)] = CR THEN SubSeq(line, 1, Len(line) - 1) ELSE line

RECURSIVE Lines(_)
\* str::lines: the text between line feeds, a carriage return just before
\* a line feed being part of the line ending; a final line feed ends the
\* last line and opens no further, empty one.  A carriage return that no
\* line feed follows stays in its line.
Lines(s) ==
    IF s = <<>> THEN <<>>
    ELSE IF \E k \in 1..Len(s) : s[k] = LF
         THEN LET k == CHOOSE k \in 1..Len(s) : s[k] = LF /\ \A j \in 1..(k - 1) : s[j] # LF
              IN  <<StripCR(SubSeq(s, 1, k - 1))>> \o Lines(SubSeq(s, k + 1, Len(s)))
         ELSE <<s>>

\* The match on one byte: Some(step) for a significant byte, None otherwise.
InterpretByte(byte) ==
    CASE byte = "+" -> Some(Add(1))
      [] byte = "-" -> Some(Add(-1))
      [] byte = ">" -> Some(Move(1))
      [] byte = "<" -> Some(Move(-1))
      [] byte = "." -> Some(Output)
      [] byte = "," -> Some(Input)
      [] byte = "?" -> Some(Debug)
      [] byte = "[" -> Some(Loop("Begin", 0))
      [] byte = "]" -> Some(Loop("End", 0))
      [] OTHER -> None

RECURSIVE ScanBytes(_, _, _)
\* line_content.bytes().enumerate().filter_map(..): the steps of one line,
\* each with the line number and the position of its byte in the line.
ScanBytes(line_number, bytes, col_number) ==
    IF col_number >= Len(bytes) THEN <<>>
    ELSE LET step == InterpretByte(At(bytes, col_number))
             rest == ScanBytes(line_number, bytes, col_number + 1)
         IN  IF step = None THEN rest
             ELSE <<[step |-> step.some, index |-> IndexNew(line_number, col_number)]>> \o rest

RECURSIVE ScanLines(_, _)
\* code.lines().enumerate().flat_map(..)
ScanLines(lines, line_number) ==
    IF line_number >= Len(lines) THEN <<>>
    ELSE ScanBytes(line_number, Bytes(At(lines, line_number)), 0)
             \o ScanLines(lines, line_number + 1)

\* i8::wrapping_add
WrappingAddI8(a, b) == ((a + b + 128) % 256) - 128

\* isize::checked_add(..).expect("Pointer overflow").  Each Move folded here
\* is the sum of one byte each of a String, whose length cannot exceed
\* isize::MAX, so the sum is always in range and the panic cannot happen.
CheckedAdd(a, b) == a + b

\* The closure, were it to give the combined step the index of `right`.
CoalesceStepRightIndex(left, right) ==
    IF left.step.op = "Add" /\ right.step.op = "Add"
    THEN Some([step |-> Add(WrappingAddI8(left.step.n, right.step.n)), index |-> right.index])
    ELSE IF left.step.op = "Move" /\ right.step.op = "Move"
    THEN Some([step |-> Move(CheckedAdd(left.step.n, right.step.n)), index |-> right.index])
    ELSE None

\* The closure, were it to keep `left` as the combined step.
CoalesceStepDropRight(left, right) ==
    IF left.step.op = "Add" /\ right.step.op = "Add"
    THEN Some([step |-> Add(left.step.n), index |-> left.index])
    ELSE IF left.step.op = "Move" /\ right.step.op = "Move"
    THEN Some([step |-> Move(left.step.n), index |-> left.index])
    ELSE None

\* The closure given to coalesce: Ok(combined) or Err((left, right)).
CoalesceStep(left, right) ==
    IF left.step.op = "Add" /\ right.step.op = "Add"
    THEN Some([step |-> Add(WrappingAddI8(left.step.n, right.step.n)), index |-> left.index])
    ELSE IF left.step.op = "Move" /\ right.step.op = "Move"
    THEN Some([step |-> Move(CheckedAdd(left.step.n, right.step.n)), index |-> left.index])
    ELSE None

RECURSIVE CoalesceFrom(_, _)
\* itertools coalesce: `last` is the item held back, `rest` what is unread.
CoalesceFrom(last, rest) ==
    IF rest = <<>> THEN <<last>>
    ELSE LET combined == CoalesceStep(last, Head(rest))
         IN  IF combined = None
             THEN <<last>> \o CoalesceFrom(Head(rest), Tail(rest))
             ELSE CoalesceFrom(combined.some, Tail(rest))

Coalesce(items) == IF items = <<>> THEN <<>> ELSE CoalesceFrom(Head(items), Tail(items))

IndexedSteps(src) == Coalesce(ScanLines(Lines(src), 0))

RECURSIVE MatchLoopsLenient(_, _, _)
\* The matching loop, were it to step over a ']' that finds the stack empty.
MatchLoopsLenient(steps, i, open_brackets) ==
    IF i >= Len(steps) THEN [steps |-> steps, open_brackets |-> open_brackets, unmatched |-> None]
    ELSE LET step == At(steps, i)
         IN  IF step.op # "Loop" THEN MatchLoopsLenient(steps, i + 1, open_brackets)
             ELSE IF step.kind = "Begin"
                  THEN MatchLoopsLenient(steps, i + 1, Append(open_brackets, i))
             ELSE IF open_brackets = <<>> THEN MatchLoopsLenient(steps, i + 1, open_brackets)
                  ELSE LET open_i == open_brackets[Len(open_brackets)]
                           linked == [steps EXCEPT ![open_i + 1].jump = i, ![i + 1].jump = open_i]
                       IN  MatchLoopsLenient(linked, i + 1,
                                             SubSeq(open_brackets, 1, Len(open_brackets) - 1))

RECURSIVE MatchLoopsOneWay(_, _, _)
\* The matching loop, were it to set the '[' target and leave that of the ']'.
MatchLoopsOneWay(steps, i, open_brackets) ==
    IF i >= Len(steps) THEN [steps |-> steps, open_brackets |-> open_brackets, unmatched |-> None]
    ELSE LET step == At(steps, i)
         IN  IF step.op # "Loop" THEN MatchLoopsOneWay(steps, i + 1, open_brackets)
             ELSE IF step.kind = "Begin"
                  THEN MatchLoopsOneWay(steps, i + 1, Append(open_brackets, i))
             ELSE IF open_brackets = <<>>
                  THEN [steps |-> steps, open_brackets |-> open_brackets, unmatched |-> Some(i)]
                  ELSE LET open_i == open_brackets[Len(open_brackets)]
                           linked == [steps EXCEPT ![open_i + 1].jump = i]
                       IN  MatchLoopsOneWay(linked, i + 1,
                                            SubSeq(open_brackets, 1, Len(open_brackets) - 1))

RECURSIVE MatchLoops(_, _, _)
\* The loop that matches brackets, from instruction i on, with the stack
\* open_brackets of the indexes of the '[' still open (top last).  Returns
\* the steps with their jump targets set, the stack left over and, when a ']'
\* found the stack empty, the index of that ']'.
MatchLoops(steps, i, open_brackets) ==
    IF i >= Len(steps) THEN [steps |-> steps, open_brackets |-> open_brackets, unmatched |-> None]
    ELSE LET step == At(steps, i)
         IN  IF step.op # "Loop" THEN MatchLoops(steps, i + 1, open_brackets)
             ELSE IF step.kind = "Begin" THEN MatchLoops(steps, i + 1, Append(open_brackets, i))
             ELSE IF open_brackets = <<>>
                  THEN [steps |-> steps, open_brackets |-> open_brackets, unmatched |-> Some(i)]
                  ELSE LET open_i == open_brackets[Len(open_brackets)]
                           linked == [steps EXCEPT ![open_i + 1].jump = i, ![i + 1].jump = open_i]
                       IN  MatchLoops(linked, i + 1, SubSeq(open_brackets, 1, Len(open_brackets) - 1))

\* The bottom of the stack in place of its top.
BottomOpenBracket(open_brackets) == open_brackets[1]

\* open_brackets.pop() after the loop: the index whose location the
\* UnmatchedBracket error of a '[' left open carries.
PopOpenBracket(open_brackets) == open_brackets[Len(open_brackets)]

real_parse(src, max_steps) ==
    LET indexed_steps == IndexedSteps(src)
        steps == [k \in 1..Len(indexed_steps) |-> indexed_steps[k].step]
        indexes == [k \in 1..Len(indexed_steps) |-> indexed_steps[k].index]
        matched == MatchLoops(steps, 0, <<>>)
    IN  IF matched.unmatched # None
        THEN Error("UnmatchedBracket", At(indexes, matched.unmatched.some), src, None)
        ELSE IF matched.open_brackets = <<>>
        THEN [kind |-> "Brainfuck", steps |-> matched.steps, indexes |-> indexes,
              code |-> src, max_steps |-> max_steps]
        ELSE Error("UnmatchedBracket", At(indexes, PopOpenBracket(matched.open_brackets)),
                   src, None)

(***************************************************************************)
(* error.rs: impl fmt::Display for Error.  The text is kept in its parts:  *)
(* the description with the line and column counted from one, the snippet  *)
(* row and the indicator row, each a sequence of characters.               *)
(***************************************************************************)
\* Whether a byte is a continuation byte of UTF-8 (10xxxxxx).
IsContinuationByte(b) == b = "0xA9"

\* str::is_char_boundary
IsCharBoundary(bytes, i) ==
    \/ i = 0
    \/ i = Len(bytes)
    \/ i < Len(bytes) /\ ~IsContinuationByte(At(bytes, i))

RECURSIVE StrOf(_)
\* The characters that a slice of a str on character boundaries holds.
StrOf(bytes) ==
    IF bytes = <<>> THEN <<>>
    ELSE IF Head(bytes) = "0xC3" THEN <<Wide>> \o StrOf(Tail(Tail(bytes)))
    ELSE <<Head(bytes)>> \o StrOf(Tail(bytes))

Spaces(n) == [k \in 1..n |-> " "]

Dots == <<".", ".", ".">>

\* What slicing a str inside a character does.
SlicePanic == [kind |-> "Panic", message |-> "byte index is not a char boundary"]

\* fmt, were it to leave the three dots out of the width of the indicator.
ErrorFmtNarrowIndicator(err) ==
    LET col == err.index.col
        line == Bytes(At(Lines(err.brainfuck), err.index.line))
        start == IF col >= 10 THEN col - 10 ELSE 0
        dots_begin == col >= 10 /\ col - 10 # 0
        offset == IF col >= 10 THEN 11 ELSE col + 1
        dots_end == col + 10 < Len(line)
        end == IF dots_end THEN col + 10 ELSE Len(line)
    IN  IF ~(IsCharBoundary(line, start) /\ IsCharBoundary(line, end)) THEN SlicePanic
        ELSE [kind |-> "Text",
              description |-> err.kind,
              line |-> err.index.line + 1,
              col |-> col + 1,
              snippet |-> (IF dots_begin THEN Dots ELSE <<>>)
                              \o StrOf(SubSeq(line, start + 1, end))
                              \o (IF dots_end THEN Dots ELSE <<>>),
              indicator |-> Spaces(offset - 1) \o <<"^">>]

\* fmt: the snippet is the bytes [start, end) of the line of the error, with
\* start = col - 10 or 0 and end = col + 10 or the length of the line in
\* bytes; the indicator is "^" right-aligned in a field `offset` wide.
ErrorFmt(err) ==
    LET col == err.index.col
        line == Bytes(At(Lines(err.brainfuck), err.index.line))
        start == IF col >= 10 THEN col - 10 ELSE 0
        dots_begin == col >= 10 /\ col - 10 # 0
        offset == IF col >= 10 THEN 11 ELSE col + 1
        dots_end == col + 10 < Len(line)
        end == IF dots_end THEN col + 10 ELSE Len(line)
        width == IF dots_begin THEN offset + 3 ELSE offset
    IN  IF ~(IsCharBoundary(line, start) /\ IsCharBoundary(line, end)) THEN SlicePanic
        ELSE [kind |-> "Text",
              description |-> err.kind,
              line |-> err.index.line + 1,
              col |-> col + 1,
              snippet |-> (IF dots_begin THEN Dots ELSE <<>>)
                              \o StrOf(SubSeq(line, start + 1, end))
                              \o (IF dots_end THEN Dots ELSE <<>>),
              indicator |-> Spaces(width - 1) \o <<"^">>]

\* The amount a step moves the pointer by: that of a Move, 0 for any other.
MoveAmount(step) == IF step.op = "Move" THEN step.n ELSE 0

(***************************************************************************)
(* mem.rs                                                                  *)
(***************************************************************************)
RECURSIVE Zeros(_)
Zeros(n) == IF n <= 0 THEN <<>> ELSE <<0>> \o Zeros(n - 1)

\* `amount as u8`: the byte with the same bits as the i8.
AsU8(amount) == amount % 256

MemoryNew == [cells |-> <<0>>, pointer |-> 0, offset |-> 0]

\* Memory::add, were it u8::saturating_add.
MemoryAddSaturating(m, amount) ==
    [m EXCEPT !.cells[m.pointer + 1] = IF @ + AsU8(amount) > 255 THEN 255 ELSE @ + AsU8(amount)]

\* Memory::add: u8::wrapping_add of the cell and the amount.
MemoryAdd(m, amount) ==
    [m EXCEPT !.cells[m.pointer + 1] = (@ + AsU8(amount)) % 256]

GetCell(m) == At(m.cells, m.pointer)

SetCell(m, c) == [m EXCEPT !.cells[m.pointer + 1] = c]

\* Memory::move_pointer, were it to leave the offset alone when it grows the
\* tape to the left.
MovePointerNoOffset(m, amount) ==
    IF amount >= 0
    THEN LET p == m.pointer + amount
         IN  [m EXCEPT !.pointer = p,
                       !.cells = IF p >= Len(m.cells)
                                 THEN m.cells \o Zeros(p + 1 - Len(m.cells))
                                 ELSE m.cells]
    ELSE LET abs == -amount
         IN  IF m.pointer >= abs
             THEN [m EXCEPT !.pointer = m.pointer - abs]
             ELSE [m EXCEPT !.cells = Zeros(abs - m.pointer) \o m.cells, !.pointer = 0]

\* Memory::move_pointer, were it to resize the tape to the pointer, one cell
\* short, when it moves right.
MovePointerShortResize(m, amount) ==
    IF amount >= 0
    THEN LET p == m.pointer + amount
         IN  [m EXCEPT !.pointer = p,
                       !.cells = IF p >= Len(m.cells)
                                 THEN m.cells \o Zeros(p - Len(m.cells))
                                 ELSE m.cells]
    ELSE LET abs == -amount
         IN  IF m.pointer >= abs
             THEN [m EXCEPT !.pointer = m.pointer - abs]
             ELSE LET grow == abs - m.pointer
                  IN  [cells |-> Zeros(grow) \o m.cells,
                       pointer |-> 0,
                       offset |-> m.offset + grow]

\* Memory::move_pointer, were it to push the new cells at the back when it
\* grows the tape to the left.
MovePointerPushBack(m, amount) ==
    IF amount >= 0
    THEN LET p == m.pointer + amount
         IN  [m EXCEPT !.pointer = p,
                       !.cells = IF p >= Len(m.cells)
                                 THEN m.cells \o Zeros(p + 1 - Len(m.cells))
                                 ELSE m.cells]
    ELSE LET abs == -amount
         IN  IF m.pointer >= abs
             THEN [m EXCEPT !.pointer = m.pointer - abs]
             ELSE LET grow == abs - m.pointer
                  IN  [cells |-> m.cells \o Zeros(grow),
                       pointer |-> 0,
                       offset |-> m.offset + grow]

\* Memory::move_pointer
MovePointer(m, amount) ==
    IF amount >= 0
    THEN LET p == m.pointer + amount
         IN  [m EXCEPT !.pointer = p,
                       !.cells = IF p >= Len(m.cells)
                                 THEN m.cells \o Zeros(p + 1 - Len(m.cells))
                                 ELSE m.cells]
    ELSE LET abs == -amount
         IN  IF m.pointer >= abs
             THEN [m EXCEPT !.pointer = m.pointer - abs]
             ELSE LET grow == abs - m.pointer
                  IN  [cells |-> Zeros(grow) \o m.cells,
                       pointer |-> 0,
                       offset |-> m.offset + grow]

RECURSIVE Digits(_)
\* The decimal digits of a natural number, as ASCII bytes.
Digits(n) == IF n < 10 THEN <<48 + n>> ELSE Digits(n \div 10) \o <<48 + (n % 10)>>

\* What "{}" formats a signed integer to, as ASCII bytes.
Display(n) == IF n < 0 THEN <<45>> \o Digits(-n) ELSE Digits(n)

\* Memory::append_debug: "[{},{}]" of pointer - offset and the cell.
AppendDebug(m, out) ==
    out \o <<91>> \o Display(m.pointer - m.offset) \o <<44>> \o Display(GetCell(m)) \o <<93>>

(***************************************************************************)
(* step.rs: LoopKind::should_jump                                          *)
(***************************************************************************)
\* should_jump, were the loop end to jump on a zero cell too.
ShouldJumpOnZero(kind, m) == GetCell(m) = 0

should_jump(kind, m) ==
    LET c == GetCell(m) = 0
    IN  IF kind = "Begin" THEN c ELSE ~c

(***************************************************************************)
(* execute.rs                                                              *)
(***************************************************************************)
IsContinuation(x) == x \in 128..191

\* How many bytes the UTF-8 sequence a lead byte opens is long; 0 for a
\* byte that opens none.
Utf8Width(lead) ==
    IF lead < 128 THEN 1
    ELSE IF lead \in 194..223 THEN 2
    ELSE IF lead \in 224..239 THEN 3
    ELSE IF lead \in 240..244 THEN 4
    ELSE 0

\* The second byte a lead byte admits.
SecondByteOk(lead, x) ==
    IF lead = 224 THEN x \in 160..191
    ELSE IF lead = 237 THEN x \in 128..159
    ELSE IF lead = 240 THEN x \in 144..191
    ELSE IF lead = 244 THEN x \in 128..143
    ELSE IsContinuation(x)

\* The chunk at the head of a non-empty byte string: a whole UTF-8
\* sequence, or the longest run of bytes that starts one and cannot go on.
Utf8Chunk(b) ==
    LET w == Utf8Width(b[1])
    IN  IF w = 0 THEN [valid |-> FALSE, len |-> 1]
        ELSE IF w = 1 THEN [valid |-> TRUE, len |-> 1]
        ELSE IF Len(b) < 2 \/ ~SecondByteOk(b[1], b[2]) THEN [valid |-> FALSE, len |-> 1]
        ELSE IF w = 2 THEN [valid |-> TRUE, len |-> 2]
        ELSE IF Len(b) < 3 \/ ~IsContinuation(b[3]) THEN [valid |-> FALSE, len |-> 2]
        ELSE IF w = 3 THEN [valid |-> TRUE, len |-> 3]
        ELSE IF Len(b) < 4 \/ ~IsContinuation(b[4]) THEN [valid |-> FALSE, len |-> 3]
        ELSE [valid |-> TRUE, len |-> 4]

RECURSIVE FromUtf8Lossy(_)
\* String::from_utf8_lossy: the bytes of the text, every chunk that is not
\* UTF-8 replaced by U+FFFD (EF BF BD).
FromUtf8Lossy(b) ==
    IF b = <<>> THEN <<>>
    ELSE LET chunk == Utf8Chunk(b)
             rest == FromUtf8Lossy(SubSeq(b, chunk.len + 1, Len(b)))
         IN  IF chunk.valid THEN SubSeq(b, 1, chunk.len) \o rest
             ELSE <<239, 191, 189>> \o rest

\* parse_bytes: None for no output, else the output as text.
parse_bytes(out) == IF out = <<>> THEN None ELSE Some(FromUtf8Lossy(out))

\* Option<String>::unwrap_or_default
UnwrapOrDefault(o) == IF o = None THEN <<>> ELSE o.some

\* The match of real_execute, were an Input on an exhausted input to leave
\* the cell as it is.
ExecuteMatchKeepAtEnd(step, m, idx, inp, out) ==
    LET same == [mem |-> m, index |-> idx, input |-> inp, output |-> out]
    IN  CASE step.op = "Add" -> [same EXCEPT !.mem = MemoryAdd(m, step.n)]
          [] step.op = "Move" -> [same EXCEPT !.mem = MovePointer(m, step.n)]
          [] step.op = "Output" -> [same EXCEPT !.output = Append(out, GetCell(m))]
          [] step.op = "Input" ->
                IF inp = <<>> THEN same
                ELSE [same EXCEPT !.mem = SetCell(m, Head(inp)), !.input = Tail(inp)]
          [] step.op = "Loop" ->
                IF should_jump(step.kind, m) THEN [same EXCEPT !.index = step.jump] ELSE same
          [] step.op = "Debug" -> [same EXCEPT !.output = AppendDebug(m, out)]

\* The match of real_execute on one step: what it makes of the memory, the
\* instruction index, the input and the output.
ExecuteMatch(step, m, idx, inp, out) ==
    LET same == [mem |-> m, index |-> idx, input |-> inp, output |-> out]
    IN  CASE step.op = "Add" -> [same EXCEPT !.mem = MemoryAdd(m, step.n)]
          [] step.op = "Move" -> [same EXCEPT !.mem = MovePointer(m, step.n)]
          [] step.op = "Output" -> [same EXCEPT !.output = Append(out, GetCell(m))]
          [] step.op = "Input" ->
                IF inp = <<>> THEN [same EXCEPT !.mem = SetCell(m, 0)]
                ELSE [same EXCEPT !.mem = SetCell(m, Head(inp)), !.input = Tail(inp)]
          [] step.op = "Loop" ->
                IF should_jump(step.kind, m) THEN [same EXCEPT !.index = step.jump] ELSE same
          [] step.op = "Debug" -> [same EXCEPT !.output = AppendDebug(m, out)]

\* The step limit as real_execute tests it after a step.
MaxStepsReached(count, max_steps) == count >= max_steps

\* What indexing a Vec past its end does.
IndexPanic == [kind |-> "Panic", message |-> "index out of bounds"]

(***************************************************************************)
(* run.rs.  Its Brainfuck holds the steps, with LoopStart and LoopEnd for  *)
(* the brackets, and loop_indexes, the map from the index of each bracket  *)
(* to the index of its partner.  The compiler that builds this value is    *)
(* not among the sources; it is modelled from the specification: the       *)
(* folded steps and the bidirectional pairing of section 4.1.              *)
(***************************************************************************)
RunStepOf(step) ==
    IF step.op = "Loop"
    THEN [op |-> IF step.kind = "Begin" THEN "LoopStart" ELSE "LoopEnd"]
    ELSE step

parse_ascii(src) ==
    LET parsed == real_parse(src, 0)
    IN  IF parsed.kind # "Brainfuck" THEN [kind |-> "UnmatchedBracket", index |-> parsed.index]
        ELSE [kind |-> "Brainfuck",
              steps |-> [k \in 1..Len(parsed.steps) |-> RunStepOf(parsed.steps[k])],
              loop_indexes |->
                  [i \in {k \in 0..(Len(parsed.steps) - 1) : At(parsed.steps, k).op = "Loop"}
                      |-> At(parsed.steps, i).jump]]

RunOptions(max_mem_bytes, max_step_count) ==
    [max_mem_bytes |-> max_mem_bytes, max_step_count |-> max_step_count]

\* `step_count > options.max_step_count`, tested before a step is run.
StepLimitExceeded(count, max_step_count) == count > max_step_count

\* The reader and the writer are the caller's: any read and any write may
\* fail, and a writer may take a part of a buffer before it fails
\* (write_all calls Write::write until the buffer is taken).  `failing`
\* tells how many bytes the reader or the writer of a step has passed when
\* it fails, NeverFailing when it does not.
NeverFailing == -1

\* The writes that write!(output, "({pointer}:{cell})") makes, one for each
\* piece of the format.
DebugWrites(p, cell) == <<(<<40>>), Display(p), (<<58>>), Display(cell), (<<41>>)>>

RECURSIVE Written(_, _)
\* What the first n of a sequence of writes have written.
Written(writes, n) ==
    IF n <= 0 \/ writes = <<>> THEN <<>>
    ELSE Head(writes) \o Written(Tail(writes), n - 1)

\* The `?` on a failed read or write: Err(RunError::Io(..)).
IoError == [kind |-> "Io"]

\* How many bytes a step asks of the reader or the writer: one byte written
\* for Output, one byte read for Input, the bytes of the pieces of write!
\* for Debug.  The reader or the writer may fail before any of them.
IoBytes(step, p, cell) ==
    CASE step.op \in {"Output", "Input"} -> 1
      [] step.op = "Debug" ->
            LET writes == DebugWrites(p, cell) IN Len(Written(writes, Len(writes)))
      [] OTHER -> 0

\* The match of run_with on one step.  `err` is None, or the RunError the
\* step returns with.
RunMatch(step, opts, t, p, idx, loop_indexes, inp, out, failing) ==
    LET same == [tape |-> t, pointer |-> p, step_index |-> idx, input |-> inp,
                 output |-> out, err |-> None]
    IN  CASE step.op = "Add" ->
                [same EXCEPT !.tape[p + 1] = (@ + AsU8(step.n)) % 256]
          [] step.op = "Move" ->
                LET abs == IF step.n < 0 THEN -step.n ELSE step.n
                IN  IF step.n > 0
                    THEN IF p + abs >= Len(t)
                         THEN IF p + abs < opts.max_mem_bytes
                              THEN [same EXCEPT !.pointer = p + abs,
                                                !.tape = t \o Zeros(p + abs + 1 - Len(t))]
                              ELSE [same EXCEPT !.pointer = p + abs,
                                                !.err = Some([kind |-> "MemoryLimit",
                                                              limit |-> opts.max_mem_bytes])]
                         ELSE [same EXCEPT !.pointer = p + abs]
                    ELSE IF p >= abs
                         THEN [same EXCEPT !.pointer = p - abs]
                         ELSE [same EXCEPT !.err = Some([kind |-> "NegativePointer"])]
          [] step.op \in {"LoopStart", "LoopEnd"} ->
                IF (step.op = "LoopStart") = (At(t, p) = 0)
                THEN [same EXCEPT !.step_index = loop_indexes[idx]]
                ELSE same
          [] step.op = "Output" ->
                IF failing = 0 THEN [same EXCEPT !.err = Some(IoError)]
                ELSE [same EXCEPT !.output = Append(out, At(t, p))]
          [] step.op = "Input" ->
                IF failing = 0 THEN [same EXCEPT !.err = Some(IoError)]
                ELSE IF inp = <<>> THEN [same EXCEPT !.tape[p + 1] = 0]
                ELSE [same EXCEPT !.tape[p + 1] = Head(inp), !.input = Tail(inp)]
          [] step.op = "Debug" ->
                LET writes == DebugWrites(p, At(t, p))
                    text == Written(writes, Len(writes))
                IN  IF failing \in 0..(Len(text) - 1)
                    THEN [same EXCEPT !.output = out \o SubSeq(text, 1, failing),
                                      !.err = Some(IoError)]
                    ELSE [same EXCEPT !.output = out \o text]

(***************************************************************************)
(* lib.rs                                                                  *)
(***************************************************************************)
MAX_STEPS == 100000

(***************************************************************************)
(* The state before anything ran.                                          *)
(***************************************************************************)
NotParsed == [kind |-> "NotParsed"]
NoResult == [kind |-> "NoResult"]
NoMemory == [cells |-> <<>>, pointer |-> 0, offset |-> 0]
NoOptions == [max_mem_bytes |-> 0, max_step_count |-> 0]
NotShown == [kind |-> "NotShown"]

\* The local variables of an execution that has not been called yet.
NoExecution ==
    [pc |-> "ready", given |-> <<>>, input |-> <<>>, output |-> <<>>, mem |-> NoMemory,
     index |-> 0, step_count |-> 0, executed |-> 0, moved |-> 0, result |-> NoResult]

Idle ==
    /\ bf = NotParsed
    /\ pc = "init"
    /\ input = <<>>
    /\ output = <<>>
    /\ mem = NoMemory
    /\ index = 0
    /\ step_count = 0
    /\ options = NoOptions
    /\ tape = <<>>
    /\ pointer = 0
    /\ step_index = 0
    /\ executed = 0
    /\ moved = 0
    /\ given = <<>>
    /\ returned = {}
    /\ other = NoExecution
    /\ result = NoResult
    /\ shown = NotShown

\* Brainfuck::parse(code)
Parse ==
    /\ pc = "init"
    /\ bf' = real_parse(code, MAX_STEPS)
    /\ pc' = "parsed"
    /\ UNCHANGED <<code, input, output, mem, index, step_count, options, tape,
                   pointer, step_index, executed, moved, given, returned, other,
                   result, shown>>

\* `bf.max_steps = n`: the caller sets the public field, before the first
\* call or between two calls.  A call borrows the Brainfuck (&self), so the
\* field cannot be assigned while one is in progress.
SetMaxSteps(n) ==
    /\ pc \in {"parsed", "ready"}
    /\ other.pc # "running"
    /\ bf.kind = "Brainfuck"
    /\ bf' = [bf EXCEPT !.max_steps = n]
    /\ pc' = "ready"
    /\ UNCHANGED <<code, input, output, mem, index, step_count, options, tape,
                   pointer, step_index, executed, moved, given, returned, other,
                   result, shown>>

\* The caller leaves max_steps at the default parse gave it.
KeepMaxSteps ==
    /\ pc = "parsed"
    /\ bf.kind = "Brainfuck"
    /\ pc' = "ready"
    /\ UNCHANGED <<code, bf, input, output, mem, index, step_count, options, tape,
                   pointer, step_index, executed, moved, given, returned, other,
                   result, shown>>

\* The call, were the Memory of the call before it kept.
ExecuteKeepMemory(inp) ==
    /\ pc = "ready"
    /\ input' = inp
    /\ output' = <<>>
    /\ mem' = IF mem = NoMemory THEN MemoryNew ELSE mem
    /\ index' = 0
    /\ step_count' = 0
    /\ executed' = 0
    /\ moved' = 0
    /\ pc' = "running"
    /\ given' = inp
    /\ UNCHANGED <<code, bf, options, tape, pointer, step_index, returned, other, result,
                   shown>>

\* Brainfuck::input(inp), and Brainfuck::run() with no input: real_execute
\* up to its loop.
Execute(inp) ==
    /\ pc = "ready"
    /\ input' = inp
    /\ output' = <<>>
    /\ mem' = MemoryNew
    /\ index' = 0
    /\ step_count' = 0
    /\ executed' = 0
    /\ moved' = 0
    /\ pc' = "running"
    /\ given' = inp
    /\ UNCHANGED <<code, bf, options, tape, pointer, step_index, returned, other, result,
                   shown>>

\* One turn of the loop of real_execute: the step at index, the two
\* increments and the test of the step limit.
ExecuteStep ==
    /\ pc = "running"
    /\ index < Len(bf.steps)
    /\ LET after == ExecuteMatch(At(bf.steps, index), mem, index, input, output)
           next_index == after.index + 1
           count == step_count + 1
       IN  /\ mem' = after.mem
           /\ input' = after.input
           /\ output' = after.output
           /\ index' = next_index
           /\ step_count' = count
           /\ executed' = executed + 1
           /\ moved' = moved + MoveAmount(At(bf.steps, index))
           /\ IF MaxStepsReached(count, bf.max_steps)
              THEN /\ pc' = "done"
                   /\ result' = IF next_index < Len(bf.indexes)
                                 THEN Error("MaxSteps", At(bf.indexes, next_index), bf.code,
                                            parse_bytes(after.output))
                                 ELSE IndexPanic
              ELSE /\ pc' = "running"
                   /\ result' = result
    /\ UNCHANGED <<code, bf, options, tape, pointer, step_index, given, returned, other,
                   shown>>

\* The loop of real_execute ends: Ok with the output as text.
ExecuteReturn ==
    /\ pc = "running"
    /\ index >= Len(bf.steps)
    /\ result' = [kind |-> "Ok", value |-> UnwrapOrDefault(parse_bytes(output))]
    /\ pc' = "done"
    /\ UNCHANGED <<code, bf, input, output, mem, index, step_count, options, tape,
                   pointer, step_index, executed, moved, given, returned,
                   other, shown>>

RECURSIVE ExecuteLoop(_, _, _, _, _, _)
\* The loop of real_execute as one function of the Brainfuck and the local
\* variables: what the call returns.
ExecuteLoop(brainfuck, m, idx, inp, out, count) ==
    IF idx >= Len(brainfuck.steps)
    THEN [kind |-> "Ok", value |-> UnwrapOrDefault(parse_bytes(out))]
    ELSE LET after == ExecuteMatch(At(brainfuck.steps, idx), m, idx, inp, out)
             next_index == after.index + 1
         IN  IF MaxStepsReached(count + 1, brainfuck.max_steps)
             THEN IF next_index < Len(brainfuck.indexes)
                  THEN Error("MaxSteps", At(brainfuck.indexes, next_index), brainfuck.code,
                             parse_bytes(after.output))
                  ELSE IndexPanic
             ELSE ExecuteLoop(brainfuck, after.mem, next_index, after.input, after.output,
                              count + 1)

real_execute(brainfuck, inp) == ExecuteLoop(brainfuck, MemoryNew, 0, inp, <<>>, 0)

\* The call has returned and the caller, who holds the result, may call
\* again.
Again ==
    /\ pc = "done"
    /\ returned' = returned \cup
           {[input |-> given, max_steps |-> bf.max_steps, result |-> result]}
    /\ pc' = "ready"
    /\ UNCHANGED <<code, bf, input, output, mem, index, step_count, options, tape,
                   pointer, step_index, executed, moved, given, other, result,
                   shown>>

\* The local variables of the execution that is taking steps.
Locals ==
    [pc |-> pc, given |-> given, input |-> input, output |-> output, mem |-> mem,
     index |-> index, step_count |-> step_count, executed |-> executed,
     moved |-> moved, result |-> result]

\* A switch, were the two executions to work on one Memory.
SwitchSharedMemory ==
    /\ pc \in {"ready", "running", "done"}
    /\ other' = Locals
    /\ pc' = other.pc
    /\ given' = other.given
    /\ input' = other.input
    /\ output' = other.output
    /\ mem' = IF other.pc = "running" THEN mem ELSE other.mem
    /\ index' = other.index
    /\ step_count' = other.step_count
    /\ executed' = other.executed
    /\ moved' = other.moved
    /\ result' = other.result
    /\ UNCHANGED <<code, bf, options, tape, pointer, step_index, returned,
                   shown>>

\* Two calls on one &Brainfuck overlap: the execution that takes steps
\* pauses and the other one goes on from where it paused.
Switch ==
    /\ pc \in {"ready", "running", "done"}
    /\ other' = Locals
    /\ pc' = other.pc
    /\ given' = other.given
    /\ input' = other.input
    /\ output' = other.output
    /\ mem' = other.mem
    /\ index' = other.index
    /\ step_count' = other.step_count
    /\ executed' = other.executed
    /\ moved' = other.moved
    /\ result' = other.result
    /\ UNCHANGED <<code, bf, options, tape, pointer, step_index, returned,
                   shown>>

(***************************************************************************)
(* The string executor: parse, set max_steps, execute with an input.       *)
(***************************************************************************)
ExecMaxLen == 3
ExecMaxSteps == 6
ExecMaxInput == 1

\* Programs of the documentation and the tests of the repository, and
\* short loops around them.
Fixtures ==
    { <<"+", "[", "-", "]">>,
      <<",", "[", ".", ",", "]">>,
      <<"+", "[", ">", "+", "]">>,
      <<"+", "[", "+", "+", "+", "+", "]">>,
      <<"-", "[", "<", "-", "]">>,
      <<",", "[", "[", "-", "]", "]">>,
      <<">", ">", "+", "+", "+", "+", "+", "?">>,
      <<"<", "-", "?", ".">>,
      <<"+", "[", "]">>,
      <<"+", LF, Wide, "[", "]">> }

ExecSources == SeqsUpTo(SigChars, ExecMaxLen) \cup Fixtures

\* The inputs: none, a zero byte, and the first bytes of 1, 2, 3, ...
InputsUpTo(n) == {<<>>, <<0>>} \cup {[k \in 1..m |-> k] : m \in 1..n}

ExecInputs == InputsUpTo(ExecMaxInput)

InitExec == code \in ExecSources /\ Idle

NextExec ==
    \/ Parse
    \/ \E n \in 0..ExecMaxSteps : SetMaxSteps(n)
    \/ \E inp \in ExecInputs : Execute(inp)
    \/ ExecuteStep
    \/ ExecuteReturn

SpecExec == InitExec /\ [][NextExec]_vars

\* The compiler of the stream executor.
ParseAscii ==
    /\ pc = "init"
    /\ bf' = parse_ascii(code)
    /\ pc' = "parsed"
    /\ UNCHANGED <<code, input, output, mem, index, step_count, options, tape,
                   pointer, step_index, executed, moved, given, returned, other,
                   result, shown>>

\* Brainfuck::run_with(opts, inp, output), up to its loop.
RunWith(opts, inp) ==
    /\ pc = "parsed"
    /\ bf.kind = "Brainfuck"
    /\ options' = opts
    /\ input' = inp
    /\ output' = <<>>
    /\ step_index' = 0
    /\ step_count' = 0
    /\ pointer' = 0
    /\ tape' = <<0>>
    /\ executed' = 0
    /\ moved' = 0
    /\ pc' = "running"
    /\ given' = inp
    /\ UNCHANGED <<code, bf, mem, index, returned, other, result, shown>>

\* One turn of the loop of run_with: the step counter and its limit, the
\* step at step_index, with whichever of its reads and writes the caller's
\* reader and writer fail, and the increment of step_index.
RunStep ==
    /\ pc = "running"
    /\ step_index < Len(bf.steps)
    /\ step_count' = step_count + 1
    /\ IF StepLimitExceeded(step_count + 1, options.max_step_count)
       THEN /\ result' = [kind |-> "StepLimit", limit |-> options.max_step_count]
            /\ pc' = "done"
            /\ UNCHANGED <<tape, pointer, step_index, input, output, executed,
                           moved>>
       ELSE \E failing \in {NeverFailing} \cup
                            0..(IoBytes(At(bf.steps, step_index), pointer,
                                        At(tape, pointer)) - 1) :
            LET after == RunMatch(At(bf.steps, step_index), options, tape, pointer,
                                  step_index, bf.loop_indexes, input, output, failing)
            IN  /\ tape' = after.tape
                /\ pointer' = after.pointer
                /\ input' = after.input
                /\ output' = after.output
                /\ executed' = executed + 1
                /\ moved' = IF after.err = None
                             THEN moved + MoveAmount(At(bf.steps, step_index))
                             ELSE moved
                /\ IF after.err # None
                   THEN /\ result' = after.err.some
                        /\ pc' = "done"
                        /\ step_index' = after.step_index
                   ELSE /\ result' = result
                        /\ pc' = "running"
                        /\ step_index' = after.step_index + 1
    /\ UNCHANGED <<code, bf, mem, index, options, given, returned, other,
                   shown>>

\* The loop of run_with ends: Ok(()).
RunReturn ==
    /\ pc = "running"
    /\ step_index >= Len(bf.steps)
    /\ result' = [kind |-> "Ok"]
    /\ pc' = "done"
    /\ UNCHANGED <<code, bf, input, output, mem, index, step_count, options, tape,
                   pointer, step_index, executed, moved, given, returned,
                   other, shown>>

(***************************************************************************)
(* The stream executor: compile, run_with options and an input.            *)
(***************************************************************************)
RunMaxLen == 3
RunMaxSteps == 5
RunMaxMem == 2
RunMaxInput == 1

RunSources == SeqsUpTo(SigChars, RunMaxLen) \cup Fixtures

RunInputs == InputsUpTo(RunMaxInput)

InitRun == code \in RunSources /\ Idle

NextRun ==
    \/ ParseAscii
    \/ \E m \in 0..RunMaxMem, n \in 0..RunMaxSteps, inp \in RunInputs :
          RunWith(RunOptions(m, n), inp)
    \/ RunStep
    \/ RunReturn

SpecRun == InitRun /\ [][NextRun]_vars

(***************************************************************************)
(* A caller who keeps the Brainfuck: it calls it again when a call has     *)
(* returned (SpecRepeat), or has two calls on it overlap (SpecShared).     *)
(***************************************************************************)
RepeatMaxLen == 1

RepeatSources == SeqsUpTo(SigChars, RepeatMaxLen) \cup Fixtures

\* The values the caller sets max_steps to, before a call and between
\* calls: one that short programs reach and one that they do not.
RepeatLimits == {1, ExecMaxSteps}

InitRepeat == code \in RepeatSources /\ Idle

NextRepeat ==
    \/ Parse
    \/ \E n \in RepeatLimits : SetMaxSteps(n)
    \/ \E inp \in ExecInputs : Execute(inp)
    \/ ExecuteStep
    \/ ExecuteReturn
    \/ Again

SpecRepeat == InitRepeat /\ [][NextRepeat]_vars

NextShared ==
    \/ Parse
    \/ \E n \in 0..ExecMaxSteps : SetMaxSteps(n)
    \/ \E inp \in ExecInputs : Execute(inp)
    \/ ExecuteStep
    \/ ExecuteReturn
    \/ Switch

SpecShared == InitRepeat /\ [][NextShared]_vars

(***************************************************************************)
(* The Memory alone: a fresh Memory on which move_pointer and add are      *)
(* called, in any order, with any amounts within the bounds.               *)
(***************************************************************************)
TapeMaxOps == 5
TapeMaxMove == 2

InitTape ==
    /\ code = <<>>
    /\ bf = NotParsed
    /\ pc = "tape"
    /\ input = <<>>
    /\ output = <<>>
    /\ mem = MemoryNew
    /\ index = 0
    /\ step_count = 0
    /\ options = NoOptions
    /\ tape = <<>>
    /\ pointer = 0
    /\ step_index = 0
    /\ executed = 0
    /\ moved = 0
    /\ given = <<>>
    /\ returned = {}
    /\ other = NoExecution
    /\ result = NoResult
    /\ shown = NotShown

\* mem.move_pointer(amount)
MemMove(amount) ==
    /\ pc = "tape"
    /\ executed < TapeMaxOps
    /\ mem' = MovePointer(mem, amount)
    /\ moved' = moved + amount
    /\ executed' = executed + 1
    /\ UNCHANGED <<code, bf, pc, input, output, index, step_count, options, tape,
                   pointer, step_index, given, returned, other, result, shown>>

\* mem.add(amount)
MemAdd(amount) ==
    /\ pc = "tape"
    /\ executed < TapeMaxOps
    /\ mem' = MemoryAdd(mem, amount)
    /\ executed' = executed + 1
    /\ UNCHANGED <<code, bf, pc, input, output, index, step_count, options, tape,
                   pointer, step_index, moved, given, returned, other, result,
                   shown>>

NextTape ==
    \/ \E amount \in (-TapeMaxMove)..TapeMaxMove : MemMove(amount)
    \/ \E amount \in {-1, 1} : MemAdd(amount)

SpecTape == InitTape /\ [][NextTape]_vars

(***************************************************************************)
(* The compiler alone: every source text of at most ParseMaxLen            *)
(* characters is parsed, and so is every one of brackets, '+', carriage    *)
(* returns and line feeds.                                                 *)
(***************************************************************************)
CrSources == SeqsUpTo({"[", "]", "+", CR, LF}, ParseMaxLen)

ParseSources == SeqsUpTo(Chars, ParseMaxLen) \cup CrSources

InitParse == code \in ParseSources /\ Idle

NextParse == Parse

SpecParse == InitParse /\ [][NextParse]_vars

(***************************************************************************)
(* Add on its own.  A program reads one byte, then holds a run of '+' or   *)
(* of '-' laid out in rows, which parse folds into one Add, then writes    *)
(* the cell; or it is a loop that increments or decrements a cell until it *)
(* holds 0.  It runs under the default max_steps.  The input is a str: one *)
(* ASCII character, or the two bytes of a wider one.                       *)
(***************************************************************************)
AddMaxRun == 48
AddRowLen == 16

AddLoops ==
    { <<"+", "[", "+", "]">>,
      <<"-", "[", "-", "]">>,
      <<",", "[", "+", "]">>,
      <<",", "[", "-", "]">> }

\* n times the character c, in rows of AddRowLen with a line feed after
\* every full row.
Rows(c, n) ==
    [k \in 1..(n + (n \div AddRowLen)) |-> IF k % (AddRowLen + 1) = 0 THEN LF ELSE c]

AddSources ==
    {<<",">> \o Rows(c, n) \o <<".">> : n \in 0..AddMaxRun, c \in {"+", "-"}}
        \cup AddLoops

AddInputs == {<<>>, <<195, 169>>} \cup {<<v>> : v \in 0..127}

InitAdd == code \in AddSources /\ Idle

NextAdd ==
    \/ Parse
    \/ KeepMaxSteps
    \/ \E inp \in AddInputs : Execute(inp)
    \/ ExecuteStep
    \/ ExecuteReturn

SpecAdd == InitAdd /\ [][NextAdd]_vars

(***************************************************************************)
(* Errors shown: sources with one unmatched ']' at any column of a line    *)
(* of inert characters, one of which may be two bytes long, alone or       *)
(* after a first line, ending with the text, with a carriage return, or    *)
(* with a carriage return and a line feed; parse returns the error and     *)
(* the caller formats it.                                                  *)
(***************************************************************************)
ShowMaxPad == 12

\* A line of `before` characters, a ']' and `after` characters, the
\* character at position `wide`, if there is one and it is not the ']',
\* being two bytes long.
ErrorLine(before, after, wide) ==
    [k \in 1..(before + 1 + after) |->
        IF k = before + 1 THEN "]" ELSE IF k = wide THEN Wide ELSE Inert]

LineEndings == {<<>>, <<CR>>, <<CR, LF>>, <<CR, LF, "+">>}

ShowSources ==
    {first \o ErrorLine(before, after, wide) \o ending :
        first \in {<<>>, <<"+", Inert, LF>>},
        before \in 0..ShowMaxPad, after \in 0..ShowMaxPad,
        wide \in 0..(2 * ShowMaxPad + 1),
        ending \in LineEndings}

InitShow == code \in ShowSources /\ Idle

\* error.to_string() on the error that parse returned.
ShowError ==
    /\ pc = "parsed"
    /\ bf.kind = "UnmatchedBracket"
    /\ shown' = ErrorFmt(bf)
    /\ pc' = "shown"
    /\ UNCHANGED <<code, bf, input, output, mem, index, step_count, options, tape,
                   pointer, step_index, executed, moved, given, returned, other,
                   result>>

NextShow ==
    \/ Parse
    \/ ShowError

SpecShow == InitShow /\ [][NextShow]_vars

(***************************************************************************)
(* Folded programs run to their end: short sources and loops whose bodies  *)
(* fold, under a step limit that the ones that end do not reach.           *)
(***************************************************************************)
FoldMaxLen == 4
FoldMaxSteps == 16

FoldLoops ==
    { <<",", "[", "-", "-", ".", "]">>,
      <<"+", "+", "[", "-", ">", ">", "+", "<", "<", "]", ">", ">", "?">>,
      <<"+", "[", "<", "<", "]", "?">>,
      <<",", "[", "-", ">", "+", "+", "<", "]", ">", ".">>,
      <<">", "+", "<", "<", "-", ">", "+", "[", "-", "]", "?">> }

FoldSources == SeqsUpTo(SigChars, FoldMaxLen) \cup Fixtures \cup FoldLoops

FoldInputs == {<<>>, <<2>>}

InitFold == code \in FoldSources /\ Idle

NextFold ==
    \/ Parse
    \/ \E n \in {FoldMaxSteps} : SetMaxSteps(n)
    \/ \E inp \in FoldInputs : Execute(inp)
    \/ ExecuteStep
    \/ ExecuteReturn

SpecFold == InitFold /\ [][NextFold]_vars

(***************************************************************************)
(* Brackets of a source text, counted on the text itself.                  *)
(***************************************************************************)
\* How many of the characters s[from..to] are c.
CountIn(s, c, from, to) == Cardinality({k \in from..to : s[k] = c})

\* ']' minus '[' never positive in a prefix, and zero over the whole text.
Balanced(s) ==
    /\ \A k \in 1..Len(s) : CountIn(s, "]", 1, k) <= CountIn(s, "[", 1, k)
    /\ CountIn(s, "]", 1, Len(s)) = CountIn(s, "[", 1, Len(s))

\* The positions of the ']' that no earlier '[' is open for.
UnmatchedClose(s) ==
    {k \in 1..Len(s) : s[k] = "]" /\ CountIn(s, "]", 1, k) > CountIn(s, "[", 1, k)}

\* The positions of the '[' that no later ']' closes.
StillOpen(s) ==
    {p \in 1..Len(s) :
        /\ s[p] = "["
        /\ \A q \in (p + 1)..Len(s) : CountIn(s, "]", p + 1, q) <= CountIn(s, "[", p + 1, q)}

Min(S) == CHOOSE m \in S : \A n \in S : m <= n
Max(S) == CHOOSE m \in S : \A n \in S : m >= n

\* The line and the byte column of the character at position p of s.
LocationOf(s, p) ==
    LET feeds == {k \in 1..(p - 1) : s[k] = LF}
        start == IF feeds = {} THEN 1 ELSE Max(feeds) + 1
    IN  [line |-> Cardinality(feeds), col |-> Len(Bytes(SubSeq(s, start, p - 1)))]

(***************************************************************************)
(* C1: parse returns an UnmatchedBracket error exactly when the '[' and    *)
(* ']' of the source are not balanced, and a Brainfuck for every balanced  *)
(* source, whatever inert characters the source holds.                     *)
(***************************************************************************)
C1_FailsOnlyOnUnmatched ==
    pc = "parsed" =>
        /\ bf.kind \in {"Brainfuck", "UnmatchedBracket"}
        /\ (bf.kind = "UnmatchedBracket") <=> ~Balanced(code)
        /\ Balanced(code) => bf.kind = "Brainfuck" /\ bf.code = code

C1_Witness ==
    /\ pc = "parsed"
    /\ bf.kind = "Brainfuck"
    /\ \E i, j, k \in 1..Len(code) : code[i] = "[" /\ code[j] = Inert /\ code[k] = Wide

(***************************************************************************)
(* C2: in every Brainfuck parse returns, each loop-begin at i holds a      *)
(* target j > i where a loop-end with target i stands, and each loop-end   *)
(* at j holds a target i < j where a loop-begin with target j stands.      *)
(***************************************************************************)
IsLoop(steps, i, kind) == At(steps, i).op = "Loop" /\ At(steps, i).kind = kind

C2_LoopPairing ==
    (pc = "parsed" /\ bf.kind = "Brainfuck") =>
        \A i \in 0..(Len(bf.steps) - 1) :
            /\ IsLoop(bf.steps, i, "Begin") =>
                  LET j == At(bf.steps, i).jump
                  IN  i < j /\ j < Len(bf.steps) /\ IsLoop(bf.steps, j, "End")
                            /\ At(bf.steps, j).jump = i
            /\ IsLoop(bf.steps, i, "End") =>
                  LET j == At(bf.steps, i).jump
                  IN  j < i /\ j >= 0 /\ IsLoop(bf.steps, j, "Begin")
                            /\ At(bf.steps, j).jump = i

C2_Witness ==
    /\ pc = "parsed"
    /\ bf.kind = "Brainfuck"
    /\ \E i \in 1..(Len(bf.steps) - 1) :
          IsLoop(bf.steps, i, "Begin") /\ IsLoop(bf.steps, i - 1, "Begin")

(***************************************************************************)
(* C9 as stated: when the matching ends with '[' still open, the error is  *)
(* located at the earliest '[' still open.                                 *)
(***************************************************************************)
C9_EarliestOpenBracket ==
    (pc = "parsed" /\ UnmatchedClose(code) = {} /\ StillOpen(code) # {}) =>
        /\ bf.kind = "UnmatchedBracket"
        /\ bf.index = LocationOf(code, Min(StillOpen(code)))

(***************************************************************************)
(* C9 as amended: when the matching ends with '[' still open (no ']' was   *)
(* left unmatched before), the error is located at the '[' opened last     *)
(* among those still open, the top of the bracket stack.                   *)
(***************************************************************************)
C9_LatestOpenBracket ==
    (pc = "parsed" /\ UnmatchedClose(code) = {} /\ StillOpen(code) # {}) =>
        /\ bf.kind = "UnmatchedBracket"
        /\ bf.index = LocationOf(code, Max(StillOpen(code)))
        /\ bf.brainfuck = code
        /\ bf.output = None

C9_Witness ==
    /\ pc = "parsed"
    /\ UnmatchedClose(code) = {}
    /\ Cardinality(StillOpen(code)) >= 2
    /\ bf.kind = "UnmatchedBracket"

(***************************************************************************)
(* C10: when some ']' has no '[' open before it, the error is located at   *)
(* the line and column of the first such ']', whatever follows it.         *)
(***************************************************************************)
C10_FirstUnmatchedClose ==
    (pc = "parsed" /\ UnmatchedClose(code) # {}) =>
        /\ bf.kind = "UnmatchedBracket"
        /\ bf.index = LocationOf(code, Min(UnmatchedClose(code)))

C10_Witness ==
    /\ pc = "parsed"
    /\ bf.kind = "UnmatchedBracket"
    /\ UnmatchedClose(code) # {}
    /\ StillOpen(code) # {}
    /\ LocationOf(code, Min(UnmatchedClose(code))).line > 0
    /\ LocationOf(code, Min(UnmatchedClose(code))).col > 0


(***************************************************************************)
(* C3: a loop-begin reached on a zero cell passes control to just after    *)
(* its loop-end, a loop-end reached on a non-zero cell passes control to   *)
(* the first step of the body, either falls through otherwise and neither  *)
(* touches the memory; so the step after a loop-begin is only ever reached *)
(* on a non-zero cell and the step after a loop-end on a zero cell.        *)
(***************************************************************************)
C3_Turn ==
    /\ (pc = "running" /\ index < Len(bf.steps) /\ At(bf.steps, index).op = "Loop") =>
          LET step == At(bf.steps, index)
              partner == IF step.kind = "Begin" THEN "End" ELSE "Begin"
              jumps == IF step.kind = "Begin" THEN GetCell(mem) = 0 ELSE GetCell(mem) # 0
          IN  /\ IsLoop(bf.steps, step.jump, partner)
              /\ index' = IF jumps THEN step.jump + 1 ELSE index + 1
              /\ executed' = executed + 1
              /\ mem' = mem
    /\ (pc' = "running" /\ index' >= 1) =>
          /\ IsLoop(bf.steps, index' - 1, "Begin") => GetCell(mem') # 0
          /\ IsLoop(bf.steps, index' - 1, "End") => GetCell(mem') = 0

C3_LoopControl == [][C3_Turn]_vars

\* A loop-end has sent control back into a body that holds a step.
C3_Witness ==
    /\ pc = "running"
    /\ index >= 1
    /\ index < Len(bf.steps)
    /\ IsLoop(bf.steps, index - 1, "Begin")
    /\ ~IsLoop(bf.steps, index, "End")
    /\ executed > index

(***************************************************************************)
(* Programs that never halt and do no I/O: Adds and Moves that leave the   *)
(* current cell non-zero, then an empty loop.                              *)
(***************************************************************************)
RECURSIVE AfterStraightLine(_, _, _)
\* The memory after the first k steps, all of them Add or Move.
AfterStraightLine(steps, k, m) ==
    IF k = 0 THEN m
    ELSE LET before == AfterStraightLine(steps, k - 1, m)
             step == steps[k]
         IN  IF step.op = "Add" THEN MemoryAdd(before, step.n)
             ELSE MovePointer(before, step.n)

SpinsForever(steps) ==
    \E k \in 0..(Len(steps) - 2) :
        /\ \A i \in 0..(k - 1) : At(steps, i).op \in {"Add", "Move"}
        /\ IsLoop(steps, k, "Begin")
        /\ IsLoop(steps, k + 1, "End")
        /\ GetCell(AfterStraightLine(steps, k, MemoryNew)) # 0

(***************************************************************************)
(* C4: under a step limit N, a program that never halts and does no I/O    *)
(* fails with the step-limit error after exactly N executed steps.         *)
(***************************************************************************)
C4_ExactlyNSteps ==
    (pc = "done" /\ SpinsForever(bf.steps)) =>
        /\ result.kind = "MaxSteps"
        /\ executed = bf.max_steps

(***************************************************************************)
(* C5: an execution whose instruction index ran past the end after k       *)
(* steps, under a step limit N >= k, returns success with its output.      *)
(***************************************************************************)
C5_SuccessWithinLimit ==
    (pc = "done" /\ index >= Len(bf.steps) /\ executed <= bf.max_steps) =>
        /\ result.kind = "Ok"
        /\ result.value = UnwrapOrDefault(parse_bytes(output))

(***************************************************************************)
(* C6: every execution under a finite step limit ends, returning success   *)
(* or an error, and one of a program that never halts returns the          *)
(* step-limit error.  An execution ends when its index stays on a step or  *)
(* just past the last, so that its loop can take a turn or return, and     *)
(* every turn raises a counter that the limit bounds; it returns success   *)
(* or an error when what it ends with is Ok or MaxSteps.                   *)
(***************************************************************************)
C6_ReturnsSuccessOrError ==
    /\ pc = "running" =>
          /\ index \in 0..Len(bf.steps)
          /\ step_count = executed
          /\ step_count <= bf.max_steps
    /\ pc = "done" => result.kind \in {"Ok", "MaxSteps"}
    /\ (pc = "done" /\ SpinsForever(bf.steps)) => result.kind = "MaxSteps"

(***************************************************************************)
(* C7: a Move to the left of the left edge of the tape is no error: it     *)
(* grows the tape to the left by what is missing and leaves the pointer on *)
(* the first cell.                                                         *)
(***************************************************************************)
C7_Turn ==
    (/\ pc = "running"
     /\ step_index < Len(bf.steps)
     /\ At(bf.steps, step_index).op = "Move"
     /\ -At(bf.steps, step_index).n > pointer
     /\ ~StepLimitExceeded(step_count + 1, options.max_step_count)
     /\ Len(tape) + (-At(bf.steps, step_index).n - pointer) <= options.max_mem_bytes) =>
        /\ pc' = "running"
        /\ pointer' = 0
        /\ tape' = Zeros(-At(bf.steps, step_index).n - pointer) \o tape

C7_LeftwardGrowth == [][C7_Turn]_vars

(***************************************************************************)
(* C8: under a memory limit of L bytes the tape never holds more than L    *)
(* cells, and a Move that needs more fails with the memory-limit error     *)
(* that reports L.                                                         *)
(***************************************************************************)
C8_TapeWithinLimit ==
    pc \in {"running", "done"} =>
        /\ Len(tape) <= options.max_mem_bytes
        /\ result.kind = "MemoryLimit" => result.limit = options.max_mem_bytes

(***************************************************************************)
(* C11: Add is arithmetic modulo 256 on the current cell and never fails.  *)
(* An Add of delta turns a cell holding v into one holding                 *)
(* (v + delta) mod 256, delta being the amount of the step, which for a    *)
(* run of '+' or '-' is the number of '+' less the number of '-'; it       *)
(* leaves the pointer, the offset and the length of the tape alone and the *)
(* execution goes on.  So one decrement of a cell holding 0 gives 255, and *)
(* the 256 increments that "+[+]" makes on its cell give the cell its      *)
(* value back.                                                             *)
(***************************************************************************)
Delta(s) == CountIn(s, "+", 1, Len(s)) - CountIn(s, "-", 1, Len(s))

C11_Turn ==
    /\ (pc = "running" /\ index < Len(bf.steps) /\ At(bf.steps, index).op = "Add") =>
          LET v == GetCell(mem)
              delta == At(bf.steps, index).n
          IN  /\ GetCell(mem') = (v + delta) % 256
              /\ code \notin AddLoops => delta = Delta(code)
              /\ (delta = -1 /\ v = 0) => GetCell(mem') = 255
              /\ mem'.pointer = mem.pointer
              /\ mem'.offset = mem.offset
              /\ Len(mem'.cells) = Len(mem.cells)
              /\ pc' = "running"
              /\ index' = index + 1
    /\ (pc' = "done" /\ code = <<"+", "[", "+", "]">>) =>
          /\ executed' = 2 * 256
          /\ GetCell(mem') = 0

C11_AddModulo256 == [][C11_Turn]_vars

\* The cell that held 0 holds 0 again after the 256 increments of "+[+]".
C11_Witness ==
    /\ pc = "done"
    /\ code = <<"+", "[", "+", "]">>
    /\ executed = 2 * 256
    /\ GetCell(mem) = 0
    /\ result.kind = "Ok"

\* The same of the Add arm of run_with.
C11_RunTurn ==
    (/\ pc = "running"
     /\ step_index < Len(bf.steps)
     /\ At(bf.steps, step_index).op = "Add"
     /\ ~StepLimitExceeded(step_count + 1, options.max_step_count)) =>
        /\ At(tape', pointer) = (At(tape, pointer) + At(bf.steps, step_index).n) % 256
        /\ pointer' = pointer
        /\ Len(tape') = Len(tape)
        /\ pc' = "running"
        /\ step_index' = step_index + 1

C11_RunAddModulo256 == [][C11_RunTurn]_vars

(***************************************************************************)
(* C12: an Input stores the next unread byte of the input in the current   *)
(* cell and uses that byte up; once the input is exhausted an Input stores *)
(* 0.  Either way no other cell, the pointer, the offset and the output    *)
(* are touched, control passes to the next step, and the execution goes on *)
(* unless this step was the one the step limit stops at.                   *)
(***************************************************************************)
\* The cells of m other than the current one are those of n.
SameOtherCells(m, n) ==
    /\ Len(m.cells) = Len(n.cells)
    /\ \A k \in 1..Len(m.cells) : k # m.pointer + 1 => m.cells[k] = n.cells[k]

C12_Turn ==
    (pc = "running" /\ index < Len(bf.steps) /\ At(bf.steps, index).op = "Input") =>
        /\ IF input # <<>>
           THEN GetCell(mem') = Head(input) /\ input' = Tail(input)
           ELSE GetCell(mem') = 0 /\ input' = <<>>
        /\ mem'.pointer = mem.pointer
        /\ mem'.offset = mem.offset
        /\ SameOtherCells(mem, mem')
        /\ output' = output
        /\ index' = index + 1
        /\ pc' = "running" \/ MaxStepsReached(step_count + 1, bf.max_steps)

C12_InputOrZero == [][C12_Turn]_vars

\* ",.," has read a byte, written it, and then read 0 from the exhausted
\* input.
C12_Witness ==
    /\ pc = "running"
    /\ code = <<",", ".", ",">>
    /\ index = 3
    /\ output = <<1>>
    /\ input = <<>>
    /\ GetCell(mem) = 0

\* The same of the Input arm of run_with, when the reader does not fail.
C12_RunTurn ==
    (/\ pc = "running"
     /\ step_index < Len(bf.steps)
     /\ At(bf.steps, step_index).op = "Input"
     /\ ~StepLimitExceeded(step_count + 1, options.max_step_count)
     /\ result' # IoError) =>
        /\ IF input # <<>>
           THEN At(tape', pointer) = Head(input) /\ input' = Tail(input)
           ELSE At(tape', pointer) = 0 /\ input' = <<>>
        /\ pointer' = pointer
        /\ Len(tape') = Len(tape)
        /\ \A k \in 1..Len(tape) : k # pointer + 1 => tape'[k] = tape[k]
        /\ output' = output
        /\ pc' = "running"
        /\ step_index' = step_index + 1

C12_RunInputOrZero == [][C12_RunTurn]_vars

(***************************************************************************)
(* C13: execution is deterministic.  Whenever a call on a Brainfuck has    *)
(* returned, every earlier call on it with the same input under the same   *)
(* max_steps returned the same result: the same text on success, the same  *)
(* kind, location and partial output on failure.                           *)
(***************************************************************************)
C13_Deterministic ==
    /\ \A a, b \in returned :
          (a.input = b.input /\ a.max_steps = b.max_steps) => a.result = b.result
    /\ pc = "done" =>
          \A a \in returned :
              (a.input = given /\ a.max_steps = bf.max_steps) => a.result = result

\* A call has returned with output for the second time on the same input,
\* after a call on another input.
C13_Witness ==
    /\ pc = "done"
    /\ result.kind = "Ok"
    /\ result.value # <<>>
    /\ \E a \in returned : a.input = given /\ a.result = result
    /\ \E b \in returned : b.input # given /\ b.result # result

(***************************************************************************)
(* C14: two executions of one Brainfuck whose steps are interleaved in any *)
(* order do not touch each other: a step of one leaves the local variables *)
(* of the other (its tape, index, step counter, input and output) as they  *)
(* are, each returns what it returns when it runs alone, and no step       *)
(* changes the steps, the jump targets or the indexes of the Brainfuck.    *)
(* The caller may assign max_steps when no call is in progress; a call     *)
(* runs alone under the max_steps it was made with, which stays as it is   *)
(* until the call returns.                                                 *)
(***************************************************************************)
C14_Turn ==
    /\ (pc = "running" \/ other.pc = "running") => bf' = bf
    /\ pc \in {"ready", "running", "done"} =>
          /\ bf'.steps = bf.steps
          /\ bf'.indexes = bf.indexes
          /\ bf'.code = bf.code
    /\ \/ other' = other
       \/ other' = Locals /\ Locals' = other
    /\ (pc = "running" /\ pc' = "done" /\ other' = other) =>
          result' = real_execute(bf, given)

C14_Isolated == [][C14_Turn]_vars

\* One execution has returned with output while the other, called with
\* another input, is part of its way through the program.
C14_Witness ==
    /\ pc = "done"
    /\ result.kind = "Ok"
    /\ result.value # <<>>
    /\ other.pc = "running"
    /\ other.executed >= 2
    /\ other.given # given
    /\ other.output # output

(***************************************************************************)
(* C15: when an execution fails with the step-limit error, the output the  *)
(* error exposes is exactly the bytes its Output and Debug steps wrote     *)
(* before the failure, in order, none dropped.                             *)
(***************************************************************************)
C15_PartialOutputExact ==
    (pc = "done" /\ result.kind = "MaxSteps") =>
        UnwrapOrDefault(result.output) = output

\* The same, of the executions whose output is UTF-8 as it stands.
C15_PartialOutputOfText ==
    (pc = "done" /\ result.kind = "MaxSteps" /\ FromUtf8Lossy(output) = output) =>
        UnwrapOrDefault(result.output) = output

(***************************************************************************)
(* C16: every step-limit error carries the line and column of the          *)
(* instruction that would have been executed next, the one at the          *)
(* instruction index when the limit is hit.  Stated of run_with, whose     *)
(* instruction index is step_index.                                        *)
(***************************************************************************)
C16_StepLimitLocation ==
    (pc = "done" /\ result.kind = "StepLimit") =>
        /\ "index" \in DOMAIN result
        /\ result.index = At(real_parse(code, MAX_STEPS).indexes, step_index)

\* The same of real_execute, whose MaxSteps error holds indexes[index] with
\* index already past the step just run, or at the target of its jump.
C16_MaxStepsLocation ==
    (pc = "done" /\ result.kind = "MaxSteps") =>
        /\ index < Len(bf.steps)
        /\ result.index = At(bf.indexes, index)
        /\ \E p \in 1..Len(code) :
              /\ result.index = LocationOf(code, p)
              /\ InterpretByte(code[p]) # None
              /\ InterpretByte(code[p]).some.op = At(bf.steps, index).op

(***************************************************************************)
(* C17: a Debug step writes exactly "[a,v]", a being the signed logical    *)
(* address, the sum of the amounts of the Moves made so far, and v the     *)
(* value of the current cell, both in decimal; it changes neither the      *)
(* tape, the pointer or the offset, and control passes to the next step.   *)
(* Stated of run_with, of the turns in which the writer does not fail.     *)
(***************************************************************************)
\* The bytes of "[a,v]".
DebugText(a, v) == <<91>> \o Display(a) \o <<44>> \o Display(v) \o <<93>>

C17_RunTurn ==
    (/\ pc = "running"
     /\ step_index < Len(bf.steps)
     /\ At(bf.steps, step_index).op = "Debug"
     /\ ~StepLimitExceeded(step_count + 1, options.max_step_count)
     /\ result' # IoError) =>
        /\ output' = output \o DebugText(moved, At(tape, pointer))
        /\ tape' = tape
        /\ pointer' = pointer
        /\ step_index' = step_index + 1

C17_DebugText == [][C17_RunTurn]_vars

\* The same of real_execute and Memory::append_debug.
C17_ExecuteTurn ==
    (pc = "running" /\ index < Len(bf.steps) /\ At(bf.steps, index).op = "Debug") =>
        /\ output' = output \o DebugText(moved, GetCell(mem))
        /\ mem' = mem
        /\ index' = index + 1

C17_ExecuteDebugText == [][C17_ExecuteTurn]_vars

(***************************************************************************)
(* C18: every location reported for an instruction or for an error is      *)
(* zero-based and counts characters: the line is the number of line feeds  *)
(* before the character and the column the number of characters before it  *)
(* on its line, also where characters of more than one byte come before it.*)
(***************************************************************************)
\* The line and the character column of the character at position p of s.
CharLocationOf(s, p) ==
    LET feeds == {k \in 1..(p - 1) : s[k] = LF}
        start == IF feeds = {} THEN 1 ELSE Max(feeds) + 1
    IN  [line |-> Cardinality(feeds), col |-> p - start]

\* The position of the bracket an UnmatchedBracket error is about.
Culprit(s) ==
    IF UnmatchedClose(s) # {} THEN Min(UnmatchedClose(s)) ELSE Max(StillOpen(s))

C18_CharacterColumns ==
    pc = "parsed" =>
        /\ bf.kind = "UnmatchedBracket" => bf.index = CharLocationOf(code, Culprit(code))
        /\ bf.kind = "Brainfuck" =>
              \A k \in 1..Len(bf.steps) :
                  \E p \in 1..Len(code) :
                      /\ InterpretByte(code[p]) # None
                      /\ InterpretByte(code[p]).some.op = bf.steps[k].op
                      /\ bf.indexes[k] = CharLocationOf(code, p)

\* The same with the column counted in bytes, as real_parse counts it.
C18_ByteColumns ==
    pc = "parsed" =>
        /\ bf.kind = "UnmatchedBracket" => bf.index = LocationOf(code, Culprit(code))
        /\ bf.kind = "Brainfuck" =>
              \A k \in 1..Len(bf.steps) :
                  \E p \in 1..Len(code) :
                      /\ InterpretByte(code[p]) # None
                      /\ InterpretByte(code[p]).some.op = bf.steps[k].op
                      /\ bf.indexes[k] = LocationOf(code, p)

(***************************************************************************)
(* C19: after any sequence of Moves on a fresh tape, in either direction   *)
(* and with any growth to the left or to the right, the logical address,   *)
(* the internal index less the offset, is the sum of the amounts of the    *)
(* Moves made so far.                                                      *)
(***************************************************************************)
C19_LogicalAddress ==
    pc = "tape" => mem.pointer - mem.offset = moved

\* The tape has grown to the left, then to the right past where it began,
\* and the pointer has come back to the left of its start.
C19_Witness ==
    /\ pc = "tape"
    /\ mem.offset >= 2
    /\ Len(mem.cells) > mem.offset + 2
    /\ moved < 0
    /\ mem.pointer > 0

(***************************************************************************)
(* C20: in every state of the tape, from the single zero cell on, the      *)
(* internal index is at least 0 and less than the length of the tape, and  *)
(* no operation lowers the offset.                                         *)
(***************************************************************************)
IndexInRange(m) == m.pointer >= 0 /\ m.pointer < Len(m.cells)

C20_Turn ==
    pc = "tape" =>
        /\ IndexInRange(mem)
        /\ IndexInRange(mem')
        /\ mem'.offset >= mem.offset
        /\ mem.offset >= 0

C20_IndexInRange == [][C20_Turn]_vars

\* The pointer stands on the last cell of a tape that has grown on both
\* sides.
C20_Witness ==
    /\ pc = "tape"
    /\ mem.offset >= 1
    /\ mem.pointer = Len(mem.cells) - 1
    /\ mem.pointer > mem.offset

\* The same of the pointer and the tape of run_with while it runs.
C20_RunIndexInRange ==
    pc = "running" => pointer >= 0 /\ pointer < Len(tape)


(***************************************************************************)
(* The reference fold of a source text, read off the text itself.          *)
(***************************************************************************)
\* The kind of instruction a significant character stands for.
KindOf(c) ==
    CASE c \in {"+", "-"} -> "Add"
      [] c \in {">", "<"} -> "Move"
      [] c = "." -> "Output"
      [] c = "," -> "Input"
      [] c = "?" -> "Debug"
      [] c \in {"[", "]"} -> "Loop"

\* The positions of the significant characters of s.
Significant(s) == {p \in 1..Len(s) : s[p] \in SigChars}

Foldable(c) == c \in {"+", "-", ">", "<"}

\* Position q continues the run that position p is in: both are of the one
\* foldable kind and so is every significant character between them.
SameRun(s, p, q) ==
    /\ p <= q
    /\ Foldable(s[p])
    /\ \A r \in Significant(s) : (p <= r /\ r <= q) => KindOf(s[r]) = KindOf(s[p])

\* The positions where a maximal run starts; a character that does not fold
\* is a run of its own.
RunStarts(s) ==
    {p \in Significant(s) :
        \A q \in Significant(s) : q < p => ~SameRun(s, q, p)}

\* The positions of the run that starts at p.
RunOf(s, p) == {p} \cup {q \in Significant(s) : SameRun(s, p, q)}

\* The signed sum of the run that starts at p: +1 for '+' and '>', -1 for
\* '-' and '<'.
RunSum(s, p) ==
    Cardinality({q \in RunOf(s, p) : s[q] \in {"+", ">"}})
        - Cardinality({q \in RunOf(s, p) : s[q] \in {"-", "<"}})

\* The k-th smallest element of a finite set of numbers, k from 1.
Nth(S, k) == CHOOSE p \in S : Cardinality({q \in S : q <= p}) = k

\* Instruction `step`, located at `idx`, is what the reference fold gives
\* for the run of s that starts at p.
FoldsTo(s, p, step, idx) ==
    /\ step.op = KindOf(s[p])
    /\ idx = LocationOf(s, p)
    /\ step.op = "Add" => step.n \in -128..127 /\ step.n % 256 = RunSum(s, p) % 256
    /\ step.op = "Move" => step.n = RunSum(s, p)
    /\ step.op = "Loop" => step.kind = (IF s[p] = "[" THEN "Begin" ELSE "End")

(***************************************************************************)
(* C21: the instructions and the location table of a compiled program are  *)
(* the reference fold of its source: one instruction per maximal run of    *)
(* '+'/'-' (an Add of the signed sum modulo 256) or of '<'/'>' (a Move of   *)
(* the exact signed sum), inert characters and line breaks between the     *)
(* characters of a run not ending it, one instruction for every other      *)
(* significant character, none merged across another kind, each located    *)
(* at the first character of its run.                                      *)
(***************************************************************************)
C21_ReferenceFold ==
    (pc = "parsed" /\ bf.kind = "Brainfuck") =>
        /\ Len(bf.steps) = Cardinality(RunStarts(code))
        /\ Len(bf.indexes) = Len(bf.steps)
        /\ \A k \in 1..Len(bf.steps) :
              FoldsTo(code, Nth(RunStarts(code), k), bf.steps[k], bf.indexes[k])

\* A run of two with an inert character or a line break inside it, after
\* another instruction.
C21_Witness ==
    /\ pc = "parsed"
    /\ bf.kind = "Brainfuck"
    /\ Len(bf.steps) = 2
    /\ \E p \in RunStarts(code) :
          /\ p > 1
          /\ Cardinality(RunOf(code, p)) = 2
          /\ Max(RunOf(code, p)) = p + 2
          /\ bf.steps[2].op \in {"Add", "Move"}
          /\ bf.steps[2].n \in {-2, 2}

\* The same for the long runs of SpecAdd.
C21_LongRuns ==
    (pc \in {"parsed", "ready"} /\ bf.kind = "Brainfuck") =>
        /\ Len(bf.steps) = Cardinality(RunStarts(code))
        /\ \A k \in 1..Len(bf.steps) :
              FoldsTo(code, Nth(RunStarts(code), k), bf.steps[k], bf.indexes[k])

\* The step of the fold on every value an Add can hold: coalesce combines
\* the Add held back with the Add(1) or Add(-1) of the next character, and the
\* result is the sum modulo 256 within i8, also where it wraps (127 + 1,
\* -128 - 1).
C21_WrappingStep ==
    \A a \in -128..127 : \A b \in {-1, 1} :
        LET combined == CoalesceStep([step |-> Add(a), index |-> IndexNew(0, 0)],
                                     [step |-> Add(b), index |-> IndexNew(0, 1)])
        IN  /\ combined # None
            /\ combined.some.step.op = "Add"
            /\ combined.some.step.n \in -128..127
            /\ combined.some.step.n % 256 = (a + b) % 256
            /\ combined.some.index = IndexNew(0, 0)

(***************************************************************************)
(* The unfolded program of a source: one primitive instruction for each    *)
(* significant character, Add(1), Add(-1), Move(1), Move(-1) never folded, *)
(* with the brackets matched as the compiler matches them.                 *)
(***************************************************************************)
Primitives(src) ==
    LET scanned == ScanLines(Lines(src), 0)
    IN  MatchLoops([k \in 1..Len(scanned) |-> scanned[k].step], 0, <<>>).steps

\* How many instructions the unfolded execution may dispatch.
FoldMaxFuel == 40

RECURSIVE RunPrimitives(_, _, _, _, _, _)
\* The execution of a sequence of steps with no step limit, from
\* instruction idx on, at most `fuel` instructions long: the memory and the
\* output it ends with.
RunPrimitives(steps, m, idx, inp, out, fuel) ==
    IF idx >= Len(steps) THEN [ended |-> TRUE, mem |-> m, output |-> out]
    ELSE IF fuel = 0 THEN [ended |-> FALSE, mem |-> m, output |-> out]
    ELSE LET after == ExecuteMatch(At(steps, idx), m, idx, inp, out)
         IN  RunPrimitives(steps, after.mem, after.index + 1, after.input, after.output,
                           fuel - 1)

\* The value at logical address a: that of the cell if the tape has one
\* there, and 0, the value of a cell not yet created, otherwise.
CellAt(m, a) ==
    LET i == a + m.offset
    IN  IF i >= 0 /\ i < Len(m.cells) THEN At(m.cells, i) ELSE 0

\* The logical addresses the tape of m has cells for.
Addresses(m) == (-m.offset)..(Len(m.cells) - 1 - m.offset)

SameMeaning(m, out, unfolded) ==
    /\ unfolded.ended
    /\ unfolded.output = out
    /\ unfolded.mem.pointer - unfolded.mem.offset = m.pointer - m.offset
    /\ \A a \in Addresses(m) \cup Addresses(unfolded.mem) :
          CellAt(m, a) = CellAt(unfolded.mem, a)

(***************************************************************************)
(* C22: folding preserves the meaning of a program.  When the execution of *)
(* the folded instructions of a balanced source ends without reaching the  *)
(* step limit, its output, the value at every logical address of its tape  *)
(* and its logical pointer are those the execution of the unfolded         *)
(* sequence, one primitive instruction per significant character, ends     *)
(* with on the same input.                                                 *)
(***************************************************************************)
C22_FoldPreservesMeaning ==
    (pc = "done" /\ result.kind = "Ok") =>
        SameMeaning(mem, output,
                    RunPrimitives(Primitives(code), MemoryNew, 0, given, <<>>, FoldMaxFuel))

\* A loop whose body folds has run, with output, in fewer instructions than
\* the source has significant characters.
C22_Witness ==
    /\ pc = "done"
    /\ result.kind = "Ok"
    /\ code \in FoldLoops
    /\ Len(bf.steps) < Len(Primitives(code))
    /\ executed >= 8
    /\ output # <<>>
    /\ mem.offset > 0

(***************************************************************************)
(* C23: a Move, whether or not it grows the tape to the left or to the     *)
(* right, changes the value at no logical address, loses no cell, and      *)
(* every cell it creates holds 0; an Add and an Input change no cell but   *)
(* the one at the current logical address; an Output, a Debug and a loop   *)
(* instruction leave the memory as it is.                                  *)
(***************************************************************************)
\* Every cell of m is a cell of n, at the same logical address and with the
\* same value, and the cells of n that m has not hold 0.
GrownFrom(m, n) ==
    /\ Addresses(m) \subseteq Addresses(n)
    /\ \A a \in Addresses(m) : At(n.cells, a + n.offset) = At(m.cells, a + m.offset)
    /\ \A a \in Addresses(n) \ Addresses(m) : At(n.cells, a + n.offset) = 0

C23_Turn ==
    (pc = "running" /\ executed' = executed + 1) =>
        LET step == At(bf.steps, index)
        IN  /\ step.op = "Move" =>
                  /\ GrownFrom(mem, mem')
                  /\ (mem'.pointer - mem'.offset) \in Addresses(mem')
            /\ step.op \in {"Add", "Input"} =>
                  /\ mem'.pointer = mem.pointer
                  /\ mem'.offset = mem.offset
                  /\ SameOtherCells(mem, mem')
            /\ step.op \in {"Output", "Debug", "Loop"} => mem' = mem

C23_GrowthPreservesContents == [][C23_Turn]_vars

\* The tape has grown to the right and, with a non-zero cell on it, to the
\* left: the cell is where it was, at logical address 1.
C23_Witness ==
    /\ pc \in {"running", "done"}
    /\ mem.offset >= 1
    /\ mem.pointer = 0
    /\ Len(mem.cells) >= mem.offset + 2
    /\ CellAt(mem, 1) # 0
    /\ \A a \in Addresses(mem) : a # 1 => CellAt(mem, a) = 0

\* The same of Memory::move_pointer and Memory::add called on their own.
C23_TapeTurn ==
    (pc = "tape" /\ executed' = executed + 1) =>
        \/ GrownFrom(mem, mem') /\ (mem'.pointer - mem'.offset) \in Addresses(mem')
        \/ mem'.pointer = mem.pointer /\ mem'.offset = mem.offset /\ SameOtherCells(mem, mem')

C23_TapeGrowthPreservesContents == [][C23_TapeTurn]_vars

\* The same of the tape of run_with, which has no offset: a step changes no
\* cell but the current one, an Add or an Input alone changes that one, and
\* the cells a Move creates hold 0.
C23_RunTurn ==
    (pc = "running" /\ step_index < Len(bf.steps)) =>
        /\ Len(tape') >= Len(tape)
        /\ \A k \in 1..Len(tape) :
              (k # pointer + 1 \/ At(bf.steps, step_index).op \notin {"Add", "Input"})
                  => tape'[k] = tape[k]
        /\ \A k \in (Len(tape) + 1)..Len(tape') : tape'[k] = 0

C23_RunGrowthPreservesContents == [][C23_RunTurn]_vars

(***************************************************************************)
(* C24: whenever real_execute builds a MaxSteps error, the instruction     *)
(* index it looks the location up with is an index of the location table,  *)
(* less than the number of instructions, whatever the program and          *)
(* max_steps.  The execution is done with something other than Ok exactly  *)
(* when its last turn went into the branch that builds the error.          *)
(***************************************************************************)
C24_LocationIndexValid ==
    (pc = "done" /\ result.kind # "Ok") =>
        /\ index >= 0
        /\ index < Len(bf.indexes)
        /\ Len(bf.indexes) = Len(bf.steps)

\* Short of the turns that reach the limit on the last instruction, or on a
\* '[' that jumps to a ']' that is the last, the index is valid.
C24_ValidBeforeTheEnd ==
    (pc = "done" /\ MaxStepsReached(step_count, bf.max_steps)
                 /\ result.kind = "MaxSteps") =>
        /\ index < Len(bf.indexes)
        /\ result.index = At(bf.indexes, index)

(***************************************************************************)
(* The line and the character an error is about, read off the source.      *)
(***************************************************************************)
\* The position in s of the significant character the error is located at.
FailingPosition(s, idx) ==
    CHOOSE p \in 1..Len(s) : s[p] \in SigChars /\ LocationOf(s, p) = idx

\* The position in s of the first character of the line of position p.
LineStart(s, p) ==
    LET feeds == {k \in 1..(p - 1) : s[k] = LF}
    IN  IF feeds = {} THEN 1 ELSE Max(feeds) + 1

\* The position in s of the last character of the line of position p,
\* the line ending, a line feed or a carriage return and a line feed, not
\* being of the line.
LineEnd(s, p) ==
    LET feeds == {k \in p..Len(s) : s[k] = LF}
        feed == Min(feeds)
    IN  IF feeds = {} THEN Len(s)
        ELSE IF feed - 1 > p /\ s[feed - 1] = CR THEN feed - 2
        ELSE feed - 1

\* The text shows the characters lo..hi of the line first..last of s around
\* the character at p: at most 10 on each side, three dots on each side
\* where characters of the line are left out and there only, and the
\* indicator as far from the left as the character at p is in the snippet.
ShowsAround(text, s, p, lo, hi) ==
    LET first == LineStart(s, p)
        last == LineEnd(s, p)
        cut_left == lo > first
        cut_right == hi < last
    IN  /\ first <= lo /\ lo <= p /\ p <= hi /\ hi <= last
        /\ p - lo <= 10
        /\ hi - p <= 10
        /\ text.snippet = (IF cut_left THEN Dots ELSE <<>>) \o SubSeq(s, lo, hi)
                              \o (IF cut_right THEN Dots ELSE <<>>)
        /\ text.indicator = Spaces((IF cut_left THEN 3 ELSE 0) + (p - lo)) \o <<"^">>

Rendered(text, s, idx) ==
    /\ text.kind = "Text"
    /\ LET p == FailingPosition(s, idx)
       IN  \E lo \in LineStart(s, p)..p : \E hi \in p..LineEnd(s, p) :
               ShowsAround(text, s, p, lo, hi)

(***************************************************************************)
(* C25: the text of an error shows the line of the error cut to at most    *)
(* 10 characters on each side of the character at the failing column, with *)
(* three dots on each side exactly where the line was cut, and beneath it  *)
(* a caret directly under that character, for every line length and every  *)
(* column.                                                                 *)
(***************************************************************************)
C25_SnippetAndCaret ==
    pc = "shown" => Rendered(shown, code, bf.index)

\* The same for the sources that hold one-byte characters only.
C25_AsciiSnippetAndCaret ==
    (pc = "shown" /\ \A k \in 1..Len(code) : code[k] # Wide) =>
        Rendered(shown, code, bf.index)

\* A line of one-byte characters cut on both sides.
C25_AsciiWitness ==
    /\ pc = "shown"
    /\ \A k \in 1..Len(code) : code[k] # Wide
    /\ shown.kind = "Text"
    /\ Len(shown.snippet) = 3 + 10 + 1 + 9 + 3
    /\ bf.index.line = 1

\* With a two-byte character on the line the text is either not written,
\* the slice falling inside the character, or written with the snippet cut
\* by bytes and the caret as far right as the column in bytes.
C25_WideLines ==
    (pc = "shown" /\ shown.kind = "Text") =>
        /\ Len(shown.indicator) =
              (IF bf.index.col >= 11 THEN 14 ELSE bf.index.col + 1)
        /\ Len(Bytes(shown.snippet)) <= 3 + 20 + 3
====
